---- MODULE Spec2Model ----
(***************************************************************************)
(* The three MCP servers of the repository, each a proxy in front of the   *)
(* API-Football upstream:                                                  *)
(*   "json"  src/index.js lines 1-167     app.all('/mcp'), JSON-RPC shaped *)
(*   "sdk"   src/index.js lines 168-518   ApiFootballMCPServer             *)
(*   "rest"  src/unnamed/part_000         app.get + app.post('/mcp')       *)
(* A JSON object is a record holding exactly the keys the object has: a    *)
(* key whose value is undefined is left out, as JSON.stringify and         *)
(* res.json leave it out.  The text of a tool result is the JSON object    *)
(* handed to JSON.stringify (the serialisation is injective on it).        *)
(***************************************************************************)
EXTENDS Integers, Sequences, FiniteSets, TLC

VARIABLES
  variant,   \* which of the three servers is running
  pending,   \* connection -> handler suspended at its await of axios.get
  last,      \* <<>> or <<e>>: the exchange completed most recently
  listed,    \* the manifests the tools/list responses have carried so far
  gotten     \* the manifests the GET /mcp responses have carried so far

vars == <<variant, pending, last, listed, gotten>>

Variants == {"json", "sdk", "rest"}

Undefined == "undefined"

(***************************************************************************)
(* Bounds of the model.                                                    *)
(***************************************************************************)
MaxEntries  == 1    \* longest upstream array of Spec and SpecConc
MaxInFlight == 2    \* connections handled concurrently in SpecConc
MaxLen      == 11   \* longest upstream array of SpecSlice

(***************************************************************************)
(* slice(0, N): the N of each summary, per server and tool.                *)
(***************************************************************************)
JsonTeamsTop    == 5
JsonFixturesTop == 5
RestTeamsTop    == 5
RestFixturesTop == 5
SdkFixturesTop  == 10
SdkOddsTop      == 5
SdkTeamsTop     == 10

Min(a, b) == IF a < b THEN a ELSE b

\* Array.prototype.slice(0, n)
SliceDropsFirst(s, n) == SubSeq(s, 2, Min(n + 1, Len(s)))
Slice(s, n) == SubSeq(s, 1, Min(n, Len(s)))

(***************************************************************************)
(* Tool descriptors.                                                       *)
(***************************************************************************)
FixturesDescriptor ==
  [name |-> "get_upcoming_fixtures",
   description |-> "Get upcoming football fixtures for betting analysis",
   inputSchema |->
     [type |-> "object",
      properties |->
        [league |-> [type |-> "string",
                     description |-> "League ID (e.g., 39 for Premier League)"],
         date   |-> [type |-> "string",
                     description |-> "Date in YYYY-MM-DD format"]]]]

TeamsDescriptor ==
  [name |-> "search_teams",
   description |-> "Search for teams by name",
   inputSchema |->
     [type |-> "object",
      properties |->
        [name |-> [type |-> "string",
                   description |-> "Team name to search for"]],
      required |-> <<"name">>]]

\* The manifest of the json server's GET branch and of the rest server's GET route.
GetManifest == <<FixturesDescriptor, TeamsDescriptor>>

\* The manifest of the json server's tools/list branch.
JsonListManifestGrows ==
  IF last = <<>> THEN <<FixturesDescriptor, TeamsDescriptor>>
  ELSE <<FixturesDescriptor, TeamsDescriptor, TeamsDescriptor>>
JsonListManifest == <<FixturesDescriptor, TeamsDescriptor>>

\* The manifest of the rest server's tools/list branch: names and descriptions only.
RestListManifest ==
  <<[name |-> "get_upcoming_fixtures",
     description |-> "Get upcoming football fixtures for betting analysis"],
    [name |-> "search_teams",
     description |-> "Search for teams by name"]>>

\* The manifest the sdk server's ListToolsRequestSchema handler returns.
SdkManifest ==
  <<[name |-> "get_upcoming_fixtures",
     description |-> "Get upcoming football fixtures for betting analysis",
     inputSchema |->
       [type |-> "object",
        properties |->
          [league   |-> [type |-> "string",
                         description |-> "League ID or name (e.g., 39 for Premier League, 140 for La Liga)"],
           date     |-> [type |-> "string",
                         description |-> "Date in YYYY-MM-DD format (optional, defaults to today)"],
           timezone |-> [type |-> "string",
                         description |-> "Timezone (optional, defaults to UTC)"]]]],
    [name |-> "get_team_form",
     description |-> "Get recent form and performance of a team for betting insights",
     inputSchema |->
       [type |-> "object",
        properties |->
          [team   |-> [type |-> "string", description |-> "Team ID or name"],
           league |-> [type |-> "string", description |-> "League ID"],
           season |-> [type |-> "string",
                       description |-> "Season year (optional, defaults to current season)"]],
        required |-> <<"team", "league">>]],
    [name |-> "get_odds",
     description |-> "Get betting odds for fixtures",
     inputSchema |->
       [type |-> "object",
        properties |->
          [fixture   |-> [type |-> "string", description |-> "Fixture ID (optional)"],
           league    |-> [type |-> "string", description |-> "League ID (optional)"],
           bookmaker |-> [type |-> "string",
                          description |-> "Bookmaker ID (optional, e.g., 8 for bet365)"]]]],
    [name |-> "search_teams",
     description |-> "Search for teams by name",
     inputSchema |->
       [type |-> "object",
        properties |->
          [name |-> [type |-> "string", description |-> "Team name to search for"]],
        required |-> <<"name">>]]>>

(***************************************************************************)
(* Requests.  A request is the part of req the handlers read: the HTTP     *)
(* method and path, and the fields of the parsed JSON body.  An absent     *)
(* body field is Undefined; params and params.arguments are objects or     *)
(* absent.                                                                 *)
(***************************************************************************)
NoArgs == [present |-> FALSE]

EmptyArgs ==
  [present |-> TRUE, name |-> Undefined, league |-> Undefined, date |-> Undefined,
   timezone |-> Undefined, team |-> Undefined, season |-> Undefined,
   fixture |-> Undefined, bookmaker |-> Undefined]

FullArgs ==
  [present |-> TRUE, name |-> "Arsenal", league |-> "140", date |-> "2025-01-04",
   timezone |-> "UTC", team |-> "42", season |-> "2024",
   fixture |-> "900", bookmaker |-> "8"]

NoParams == [present |-> FALSE]

Params(n, a) == [present |-> TRUE, name |-> n, args |-> a]

Get(p) ==
  [http |-> "GET", path |-> p, jsonrpc |-> Undefined, method |-> Undefined,
   id |-> Undefined, params |-> NoParams]

Post(v, m, i, ps) ==
  [http |-> "POST", path |-> "/mcp", jsonrpc |-> v, method |-> m, id |-> i,
   params |-> ps]

\* A request id: a JSON string, a JSON number, null, or no id at all.
Ids == {"\"abc\"", "7", "null", Undefined}

RpcVersions == {"2.0", "1.0", Undefined}

ToolNames ==
  {"search_teams", "get_upcoming_fixtures", "get_team_form", "get_odds", "nonexistent"}

CallParams ==
  {NoParams} \cup {Params(n, a) : n \in ToolNames, a \in {NoArgs, EmptyArgs, FullArgs}}

Requests ==
  {Get("/"), Get("/mcp")}
    \cup {Post(v, "tools/list", i, NoParams) : v \in RpcVersions, i \in Ids}
    \cup {Post(v, "initialize", i, NoParams) : v \in RpcVersions, i \in Ids}
    \cup {Post(v, "tools/call", i, ps) : v \in RpcVersions, i \in Ids, ps \in CallParams}

\* The calls two clients send at once in SpecConc.
ConcRequests ==
  {Post("2.0", "tools/call", i, Params(n, FullArgs)) :
     i \in {"7", "null"}, n \in ToolNames}

\* The calls of SpecSlice.
SliceRequests ==
  {Post("2.0", "tools/call", "7", Params(n, FullArgs)) : n \in ToolNames}

(***************************************************************************)
(* Upstream replies.  axios.get rejects (transport failure or a non-2xx    *)
(* status) or resolves with response.data.  An entry of data.response      *)
(* either has the nested objects the projection reads (team; fixture,      *)
(* teams, league) or lacks them.  data.results is the upstream's own count *)
(* of the entries.                                                         *)
(***************************************************************************)
Entry(k, n) == [key |-> k, nested |-> n]

\* The arrays of length up to n: entry i has key i; at most one entry lacks
\* its nested objects.
Arrays(n) ==
  {[i \in 1..len |-> Entry(i, i # bad)] : len \in 0..n, bad \in 0..n}

Failed == [ok |-> FALSE]

Resolved(d) == [ok |-> TRUE, data |-> d]

\* A 2xx reply whose JSON has no response array.
NoResponseData == [results |-> 0]

Replies(n) ==
  {Failed, Resolved(NoResponseData)}
    \cup {Resolved([results |-> Len(a), response |-> a]) : a \in Arrays(n)}

(***************************************************************************)
(* Values and exceptions.                                                  *)
(***************************************************************************)
Ok(v) == [ok |-> TRUE, value |-> v]

Throw(m) == [ok |-> FALSE, message |-> m]

\* TypeError of reading property p of undefined.
MsgRead(p) == "Cannot read properties of undefined (reading '" \o p \o "')"

\* TypeError of destructuring name out of the undefined expression of.
MsgDestructure(of) ==
  "Cannot destructure property 'name' of '" \o of \o "' as it is undefined."

\* The message of the error axios.get rejects with.
MsgTransport == "Network Error"

\* The value at path p of upstream entry e.
Field(e, p) == <<e.key, p>>

\* The map callbacks: what each summary keeps of an upstream entry.
JsonTeam(e) ==
  [id |-> Field(e, "team.id"), name |-> Field(e, "team.name"),
   country |-> Field(e, "team.country")]

JsonFixture(e) ==
  [id |-> Field(e, "fixture.id"), date |-> Field(e, "fixture.date"),
   teams |-> <<Field(e, "teams.home.name"), "vs", Field(e, "teams.away.name")>>,
   league |-> Field(e, "league.name")]

SdkFixture(e) ==
  [id |-> Field(e, "fixture.id"), date |-> Field(e, "fixture.date"),
   status |-> Field(e, "fixture.status.long"), league |-> Field(e, "league.name"),
   teams |-> <<Field(e, "teams.home.name"), "vs", Field(e, "teams.away.name")>>,
   venue |-> Field(e, "fixture.venue?.name")]

SdkOdd(e) ==
  [fixture |-> <<Field(e, "fixture.teams.home.name"), "vs",
                 Field(e, "fixture.teams.away.name")>>,
   date |-> Field(e, "fixture.date"),
   bookmakers |-> Field(e, "bookmakers?.slice(0, 3)")]

SdkTeam(e) ==
  [id |-> Field(e, "team.id"), name |-> Field(e, "team.name"),
   country |-> Field(e, "team.country"), founded |-> Field(e, "team.founded")]

\* The map callback named proj, applied to entry e.
Project(proj, e) ==
  CASE proj = "JsonTeam"    -> JsonTeam(e)
    [] proj = "JsonFixture" -> JsonFixture(e)
    [] proj = "SdkFixture"  -> SdkFixture(e)
    [] proj = "SdkOdd"      -> SdkOdd(e)
    [] proj = "SdkTeam"     -> SdkTeam(e)

\* response.slice(0, n).map(proj): throws at the first entry that lacks the
\* nested object proj reads first (whose property `first` it reads).
Summary(response, n, proj, first) ==
  LET top == Slice(response, n)
  IN  IF \E i \in 1..Len(top) : ~top[i].nested
      THEN Throw(MsgRead(first))
      ELSE Ok([i \in 1..Len(top) |-> Project(proj, top[i])])

\* data.response.slice(...) of a payload: TypeError when there is no array.
SummaryOf(data, n, proj, first) ==
  IF "response" \in DOMAIN data
  THEN Summary(data.response, n, proj, first)
  ELSE Throw(MsgRead("slice"))

\* An object literal key: value, left out when the value is undefined.
Key(k, v) == IF v = Undefined THEN <<>> ELSE (k :> v)

\* res.json / res.status(s).json
Res(s, b) == [status |-> s, body |-> b]

\* A handler's step: it answers, or it issues upstream GETs and awaits.
Respond(r) == [kind |-> "respond", issued |-> <<>>, writes |-> <<r>>]

Await(q) == [kind |-> "await", issued |-> <<q>>, writes |-> <<>>]

\* A text content block; a plain (non-JSON) text is [plain |-> string].
Content(t) == <<[type |-> "text", text |-> t]>>

\* A JSON value that is a bare string, where an object may also stand.
Str(m) == [string |-> m]

(***************************************************************************)
(* The json server: app.all('/mcp') of src/index.js.                       *)
(***************************************************************************)
\* An envelope {jsonrpc: "2.0", id: id, ...rest}.
JsonEnvelope(id, rest) == ("jsonrpc" :> "2.0") @@ Key("id", id) @@ rest

\* The fall-through after the dispatch: 400, method not found.
JsonNotFound(req) ==
  Res(400, JsonEnvelope(req.id, [error |-> [code |-> -32601, message |-> "Method not found"]]))

\* The catch block: 500, internal error with the thrown message.
JsonCatchAsResult(req, m) ==
  Res(200, JsonEnvelope(req.id, [result |-> [content |-> Content([plain |-> m])]]))
JsonCatch(req, m) ==
  Res(500, JsonEnvelope(req.id, [error |-> [code |-> -32603, message |-> m]]))

JsonResult(req, text) ==
  Res(200, JsonEnvelope(req.id, [result |-> [content |-> Content(text)]]))

\* The text of search_teams: message, then the first five teams.
JsonTeamsText(args, data) ==
  LET teams == SummaryOf(data, JsonTeamsTop, "JsonTeam", "id")
  IN  IF teams.ok
      THEN Ok([message |-> <<"Teams found matching", args.name>>, teams |-> teams.value])
      ELSE teams

\* The text of get_upcoming_fixtures: message, then the first five fixtures.
JsonFixturesText(data) ==
  LET fixtures == SummaryOf(data, JsonFixturesTop, "JsonFixture", "id")
  IN  IF fixtures.ok
      THEN Ok([message |-> <<"Found", data.results, "upcoming fixtures">>,
               fixtures |-> fixtures.value])
      ELSE fixtures

JsonTeamsQuery(args) ==
  [endpoint |-> "/teams", params |-> Key("search", args.name)]

JsonFixturesQuery(args) ==
  [endpoint |-> "/fixtures",
   params |-> [league |-> IF args.league = Undefined THEN "39" ELSE args.league,
               next |-> "10"]]

\* The handler up to its response or its first await.
JsonStart(req) ==
  IF req.http = "GET"
  THEN Respond(Res(200, [jsonrpc |-> "2.0", result |-> [tools |-> GetManifest]]))
  ELSE IF req.method = "tools/list"
  THEN Respond(Res(200, JsonEnvelope(req.id, [result |-> [tools |-> JsonListManifest]])))
  ELSE IF req.method = "tools/call"
  THEN IF ~req.params.present
       THEN Respond(JsonCatch(req, MsgDestructure("params")))
       ELSE IF req.params.name = "search_teams"
       THEN IF ~req.params.args.present
            THEN Respond(JsonCatch(req, MsgRead("name")))
            ELSE Await(JsonTeamsQuery(req.params.args))
       ELSE IF req.params.name = "get_upcoming_fixtures"
       THEN IF ~req.params.args.present
            THEN Respond(JsonCatch(req, MsgRead("league")))
            ELSE Await(JsonFixturesQuery(req.params.args))
       ELSE Respond(JsonNotFound(req))
  ELSE Respond(JsonNotFound(req))

\* The handler from the await on: what it writes once axios.get has settled.
JsonResume(req, reply) ==
  IF ~reply.ok
  THEN <<JsonCatch(req, MsgTransport)>>
  ELSE LET text == IF req.params.name = "search_teams"
                   THEN JsonTeamsText(req.params.args, reply.data)
                   ELSE JsonFixturesText(reply.data)
       IN  IF text.ok
           THEN <<JsonResult(req, text.value)>>
           ELSE <<JsonCatch(req, text.message)>>

(***************************************************************************)
(* The rest server: app.get('/mcp') and app.post('/mcp') of                *)
(* src/unnamed/part_000.  It reads method and params only.                 *)
(***************************************************************************)
\* The fall-through after the dispatch.
RestNotFound == Res(400, [error |-> Str("Unknown method or tool")])

\* The catch block.
RestCatch(m) == Res(500, [error |-> Str(m)])

RestResult(text) == Res(200, [content |-> Content(text)])

RestTeamsTextNoneFound(args, data) ==
  LET teams == SummaryOf(data, RestTeamsTop, "JsonTeam", "id")
  IN  IF teams.ok /\ teams.value # <<>>
      THEN Ok([message |-> <<"Teams found matching", args.name>>, teams |-> teams.value])
      ELSE IF teams.ok THEN Throw("No teams found") ELSE teams
RestTeamsText(args, data) ==
  LET teams == SummaryOf(data, RestTeamsTop, "JsonTeam", "id")
  IN  IF teams.ok
      THEN Ok([message |-> <<"Teams found matching", args.name>>, teams |-> teams.value])
      ELSE teams

RestFixturesText(data) ==
  LET fixtures == SummaryOf(data, RestFixturesTop, "JsonFixture", "id")
  IN  IF fixtures.ok
      THEN Ok([message |-> <<"Found", data.results, "upcoming fixtures">>,
               fixtures |-> fixtures.value])
      ELSE fixtures

RestStart(req) ==
  IF req.http = "GET"
  THEN Respond(Res(200, [tools |-> GetManifest]))
  ELSE IF req.method = "tools/list"
  THEN Respond(Res(200, [tools |-> RestListManifest]))
  ELSE IF req.method = "tools/call"
  THEN IF ~req.params.present
       THEN Respond(RestCatch(MsgDestructure("params")))
       ELSE IF req.params.name = "search_teams"
       THEN IF ~req.params.args.present
            THEN Respond(RestCatch(MsgRead("name")))
            ELSE Await(JsonTeamsQuery(req.params.args))
       ELSE IF req.params.name = "get_upcoming_fixtures"
       THEN IF ~req.params.args.present
            THEN Respond(RestCatch(MsgRead("league")))
            ELSE Await(JsonFixturesQuery(req.params.args))
       ELSE Respond(RestNotFound)
  ELSE Respond(RestNotFound)

RestResume(req, reply) ==
  IF ~reply.ok
  THEN <<RestCatch(MsgTransport)>>
  ELSE LET text == IF req.params.name = "search_teams"
                   THEN RestTeamsText(req.params.args, reply.data)
                   ELSE RestFixturesText(reply.data)
       IN  IF text.ok
           THEN <<RestResult(text.value)>>
           ELSE <<RestCatch(text.message)>>

(***************************************************************************)
(* The sdk server: class ApiFootballMCPServer of src/index.js and its      *)
(* routes.  handleRequest reads method and params only.                    *)
(***************************************************************************)
SdkTools == {"get_upcoming_fixtures", "get_team_form", "get_odds", "search_teams"}

\* A truthy argument becomes a query parameter.
Truthy(k, v) == Key(k, v)

SdkFixturesQuery(args) ==
  [endpoint |-> "/fixtures",
   params |-> Truthy("league", args.league) @@ Truthy("date", args.date)
                @@ Truthy("timezone", args.timezone)]

SdkTeamFormQuery(args) ==
  [endpoint |-> "/teams/statistics",
   params |-> Key("team", args.team) @@ Key("league", args.league)
                @@ Truthy("season", args.season)]

SdkOddsQuery(args) ==
  [endpoint |-> "/odds",
   params |-> Truthy("fixture", args.fixture) @@ Truthy("league", args.league)
                @@ Truthy("bookmaker", args.bookmaker)]

SdkTeamsQuery(args) ==
  [endpoint |-> "/teams", params |-> Key("search", args.name)]

SdkQuery(name, args) ==
  CASE name = "get_upcoming_fixtures" -> SdkFixturesQuery(args)
    [] name = "get_team_form"         -> SdkTeamFormQuery(args)
    [] name = "get_odds"              -> SdkOddsQuery(args)
    [] name = "search_teams"          -> SdkTeamsQuery(args)

\* The property of args each tool method reads first.
SdkFirstRead(name) ==
  CASE name = "get_upcoming_fixtures" -> "league"
    [] name = "get_team_form"         -> "team"
    [] name = "get_odds"              -> "fixture"
    [] name = "search_teams"          -> "name"

\* makeApiRequest: response.data, or the transport error wrapped.
makeApiRequest(reply) ==
  IF reply.ok
  THEN Ok(reply.data)
  ELSE Throw("API request failed: " \o "AxiosError: " \o MsgTransport)

getUpcomingFixtures(data) ==
  LET fixtures == SummaryOf(data, SdkFixturesTop, "SdkFixture", "id")
  IN  IF fixtures.ok
      THEN Ok([message |-> <<"Found", data.results, "upcoming fixtures">>,
               fixtures |-> fixtures.value])
      ELSE fixtures

\* statistics is data.response as it stands: the key is left out when absent.
getTeamForm(data) ==
  Ok([message |-> <<"Team statistics for analysis">>]
       @@ (IF "response" \in DOMAIN data
           THEN [statistics |-> data.response]
           ELSE <<>>))

getOdds(data) ==
  LET odds == SummaryOf(data, SdkOddsTop, "SdkOdd", "teams")
  IN  IF odds.ok
      THEN Ok([message |-> <<"Betting odds found">>, odds |-> odds.value])
      ELSE odds

searchTeams(args, data) ==
  LET teams == SummaryOf(data, SdkTeamsTop, "SdkTeam", "id")
  IN  IF teams.ok
      THEN Ok([message |-> <<"Teams found matching", args.name>>, teams |-> teams.value])
      ELSE teams

\* The tool method from its await of makeApiRequest on.
SdkToolText(name, args, reply) ==
  LET data == makeApiRequest(reply)
  IN  IF ~data.ok THEN data
      ELSE CASE name = "get_upcoming_fixtures" -> getUpcomingFixtures(data.value)
             [] name = "get_team_form"         -> getTeamForm(data.value)
             [] name = "get_odds"              -> getOdds(data.value)
             [] name = "search_teams"          -> searchTeams(args, data.value)

\* The catch of the CallToolRequestSchema handler: the error as a text result.
SdkToolError(m) == Res(200, [content |-> Content([plain |-> "Error: " \o m])])

SdkResult(text) == Res(200, [content |-> Content(text)])

\* The catch of handleRequest.
SdkCatch(m) == Res(500, [error |-> Str(m)])

\* GET /mcp and tools/list: the result of the ListToolsRequestSchema handler.
SdkList == Res(200, [tools |-> SdkManifest])

SdkStart(req) ==
  IF req.http = "GET"
  THEN Respond(SdkList)
  ELSE IF req.method = "tools/list"
  THEN Respond(SdkList)
  ELSE IF req.method = "tools/call"
  THEN IF ~req.params.present
       THEN Respond(SdkCatch(MsgDestructure("request.params")))
       ELSE IF req.params.name \in SdkTools
       THEN IF ~req.params.args.present
            THEN Respond(SdkToolError(MsgRead(SdkFirstRead(req.params.name))))
            ELSE Await(SdkQuery(req.params.name, req.params.args))
       ELSE Respond(SdkToolError("Unknown tool: " \o req.params.name))
  ELSE Respond(SdkCatch("Unknown method: " \o req.method))

SdkResume(req, reply) ==
  LET text == SdkToolText(req.params.name, req.params.args, reply)
  IN  IF text.ok
      THEN <<SdkResult(text.value)>>
      ELSE <<SdkToolError(text.message)>>

(***************************************************************************)
(* The routes of the running server.                                       *)
(***************************************************************************)
\* GET /: the health check.
Health(v) ==
  Res(200, [status |-> "OK", message |-> "API-Football MCP Server is running",
            tools |-> IF v = "json"
                      THEN <<"get_upcoming_fixtures", "search_teams">>
                      ELSE <<"get_upcoming_fixtures", "get_team_form", "get_odds",
                             "search_teams">>])

\* The route handler of server v, up to its response or its first await.
StartTwice(v, req) ==
  LET s == CASE v = "json" -> JsonStart(req)
             [] v = "sdk"  -> SdkStart(req)
             [] v = "rest" -> RestStart(req)
  IN  IF req.path = "/" THEN Respond(Health(v))
      ELSE [s EXCEPT !.issued = s.issued \o s.issued]
Start(v, req) ==
  IF req.path = "/" THEN Respond(Health(v))
  ELSE CASE v = "json" -> JsonStart(req)
         [] v = "sdk"  -> SdkStart(req)
         [] v = "rest" -> RestStart(req)

\* The route handler of server v from its await on.
Resume(v, req, reply) ==
  CASE v = "json" -> JsonResume(req, reply)
    [] v = "sdk"  -> SdkResume(req, reply)
    [] v = "rest" -> RestResume(req, reply)

\* The suspended handler the settling of connection c's axios.get resumes:
\* each invocation's req, res and locals live in its own closure.
ResumedShared(c) ==
  pending[CHOOSE d \in DOMAIN pending : \A e \in DOMAIN pending : d >= e]
Resumed(c) == pending[c]

\* The tool descriptors a listing response carries.
ManifestOf(w) ==
  IF "result" \in DOMAIN w.body THEN w.body.result.tools ELSE w.body.tools

\* The manifests seen so far, with those of the listing responses in writes.
Seen(set, listing, writes) ==
  IF listing THEN set \cup {ManifestOf(writes[i]) : i \in 1..Len(writes)} ELSE set

\* A completed exchange: the request of connection c, the upstream GETs its
\* handler issued, the upstream reply it got (if any), the responses written.
Exchange(c, req, issued, reply, writes) ==
  [conn |-> c, req |-> req, issued |-> issued, reply |-> reply, writes |-> writes]

Init ==
  /\ variant \in Variants
  /\ pending = <<>>
  /\ last = <<>>
  /\ listed = {}
  /\ gotten = {}

\* A request arrives on connection c; its handler runs to its response, or
\* issues its upstream GET and suspends.
Accept(c, req) ==
  /\ c \notin DOMAIN pending
  /\ LET s == Start(variant, req)
     IN  IF s.kind = "await"
         THEN /\ pending' = pending @@ (c :> [req |-> req, issued |-> s.issued])
              /\ UNCHANGED <<last, listed, gotten>>
         ELSE /\ last' = <<Exchange(c, req, s.issued, <<>>, s.writes)>>
              /\ listed' = Seen(listed, req.http = "POST" /\ req.method = "tools/list",
                                 s.writes)
              /\ gotten' = Seen(gotten, req.http = "GET" /\ req.path = "/mcp", s.writes)
              /\ UNCHANGED pending
  /\ UNCHANGED variant

\* The upstream GET of connection c settles with reply; the handler resumes
\* and runs to its response.
Settle(c, reply) ==
  /\ c \in DOMAIN pending
  /\ last' = <<Exchange(c, pending[c].req, pending[c].issued, <<reply>>,
                        Resume(variant, Resumed(c).req, reply))>>
  /\ pending' = [d \in DOMAIN pending \ {c} |-> pending[d]]
  /\ UNCHANGED <<variant, listed, gotten>>

\* One client, one request at a time, every request shape.
Next ==
  \/ \E req \in Requests : Accept(1, req)
  \/ \E reply \in Replies(MaxEntries) : Settle(1, reply)

Spec == Init /\ [][Next]_vars

\* Clients on up to MaxInFlight connections at once; replies in any order.
NextConc ==
  \/ \E c \in 1..MaxInFlight, req \in ConcRequests : Accept(c, req)
  \/ \E c \in 1..MaxInFlight, reply \in Replies(MaxEntries) : Settle(c, reply)

SpecConc == Init /\ [][NextConc]_vars

\* One client calling tools; upstream arrays longer than every slice.
NextSlice ==
  \/ \E req \in SliceRequests : Accept(1, req)
  \/ \E reply \in Replies(MaxLen) : Settle(1, reply)

SpecSlice == Init /\ [][NextSlice]_vars

TypeOK ==
  /\ variant \in Variants
  /\ Len(last) <= 1
  /\ DOMAIN pending \subseteq 1..MaxInFlight

(***************************************************************************)
(* Vocabulary of the properties.                                           *)
(***************************************************************************)
\* The static tool set of server v: the names its tools/call dispatch knows.
KnownTools(v) ==
  IF v = "sdk" THEN SdkTools ELSE {"search_teams", "get_upcoming_fixtures"}

\* The tools whose text is a slice of the upstream array.
SummaryTools == {"search_teams", "get_upcoming_fixtures", "get_odds"}

IsCall(req) == req.http = "POST" /\ req.method = "tools/call"

\* A tools/call naming a tool of the running server.
IsKnownCall(req) ==
  IsCall(req) /\ req.params.present /\ req.params.name \in KnownTools(variant)

\* A tools/call that reaches the upstream: known tool, arguments present.
IsValidCall(req) == IsKnownCall(req) /\ req.params.args.present

IdOf(body) == IF "id" \in DOMAIN body THEN body.id ELSE Undefined

Is2xx(w) == w.status \in 200..299

\* The body has a success shape: a result, a content or a tools member.
SuccessShape(body) == {"result", "content", "tools"} \cap DOMAIN body # {}

\* The content blocks of a response, under result or at the top level.
ContentOf(body) ==
  IF "result" \in DOMAIN body THEN body.result.content ELSE body.content

HasContent(body) ==
  \/ "content" \in DOMAIN body
  \/ "result" \in DOMAIN body /\ "content" \in DOMAIN body.result

\* The N of slice(0, N) for tool name of server v.
TopOf(v, name) ==
  IF v = "sdk" /\ name \in {"get_upcoming_fixtures", "search_teams"} THEN 10 ELSE 5

\* The key under which the text of tool name holds its collection.
CollectionKey(name) ==
  CASE name = "search_teams"          -> "teams"
    [] name = "get_upcoming_fixtures" -> "fixtures"
    [] name = "get_odds"              -> "odds"
    [] name = "get_team_form"         -> "statistics"

\* The upstream key of a projected entry.
KeyOf(name, p) == IF name = "get_odds" THEN p.date[1] ELSE p.id[1]

(***************************************************************************)
(* C1.  Every tools/call for a known tool with arguments, whose upstream   *)
(* GET resolved, is answered by an envelope whose id is the request's id   *)
(* (a string, a number or null).                                           *)
(***************************************************************************)
C1_IdEchoed ==
  \A i \in 1..Len(last) :
    LET e == last[i]
    IN  (/\ IsValidCall(e.req)
         /\ e.req.id # Undefined
         /\ e.reply # <<>>
         /\ e.reply[1].ok)
          => /\ Len(e.writes) = 1
             /\ "id" \in DOMAIN e.writes[1].body
             /\ e.writes[1].body.id = e.req.id

(***************************************************************************)
(* C2.  A POST whose method is not tools/list or tools/call, and a         *)
(* tools/call whose params.name is not in the static tool set, is answered *)
(* by an error envelope {code: -32601, message: "Method not found"}, not   *)
(* by a 2xx status nor a success shape, and issues no upstream GET.        *)
(***************************************************************************)
C2_NotFound ==
  /\ \A c \in DOMAIN pending : IsKnownCall(pending[c].req)
  /\ \A i \in 1..Len(last) :
       LET e == last[i]
       IN  (/\ e.req.http = "POST"
            /\ \/ e.req.method \notin {"tools/list", "tools/call"}
               \/ /\ IsCall(e.req)
                  /\ e.req.params.present
                  /\ e.req.params.name \notin KnownTools(variant))
             => /\ e.issued = <<>>
                /\ Len(e.writes) = 1
                /\ ~Is2xx(e.writes[1])
                /\ ~SuccessShape(e.writes[1].body)
                /\ "error" \in DOMAIN e.writes[1].body
                /\ "code" \in DOMAIN e.writes[1].body.error
                /\ e.writes[1].body.error.code = -32601
                /\ e.writes[1].body.error.message = "Method not found"

(***************************************************************************)
(* C4.  A POST whose jsonrpc field is not "2.0" is rejected before         *)
(* dispatch: it issues no upstream GET and its answer is an error, not a   *)
(* tools/list or tools/call result.                                        *)
(***************************************************************************)
C4_VersionChecked ==
  /\ \A c \in DOMAIN pending : pending[c].req.jsonrpc = "2.0"
  /\ \A i \in 1..Len(last) :
       LET e == last[i]
       IN  (e.req.http = "POST" /\ e.req.jsonrpc # "2.0")
             => /\ e.issued = <<>>
                /\ Len(e.writes) = 1
                /\ ~Is2xx(e.writes[1])
                /\ ~SuccessShape(e.writes[1].body)
                /\ "error" \in DOMAIN e.writes[1].body

(***************************************************************************)
(* C6.  GET /mcp carries the same tool descriptors (names, descriptions    *)
(* and input schemas) as the tools/list method of the same server.         *)
(***************************************************************************)
C6_GetEqualsList == \A g \in gotten : \A l \in listed : g = l

(***************************************************************************)
(* The cases in which handling a tools/call throws, and the message of the *)
(* error thrown: params absent; arguments absent for a known tool; the     *)
(* upstream GET rejected; a payload without a response array; a sliced     *)
(* entry without its nested objects.                                       *)
(***************************************************************************)
ReplyBreaks(v, name, r) ==
  \/ ~r.ok
  \/ /\ name \in SummaryTools
     /\ \/ "response" \notin DOMAIN r.data
        \/ \E i \in 1..Min(Len(r.data.response), TopOf(v, name)) :
             ~r.data.response[i].nested

CallThrew(v, e) ==
  /\ IsCall(e.req)
  /\ \/ ~e.req.params.present
     \/ /\ e.req.params.name \in KnownTools(v)
        /\ \/ ~e.req.params.args.present
           \/ e.reply # <<>> /\ ReplyBreaks(v, e.req.params.name, e.reply[1])

Thrown(v, e) ==
  IF ~e.req.params.present
  THEN IF v = "sdk"
       THEN "Cannot destructure property 'name' of 'request.params' as it is undefined."
       ELSE "Cannot destructure property 'name' of 'params' as it is undefined."
  ELSE IF ~e.req.params.args.present
  THEN CASE e.req.params.name = "search_teams" ->
              "Cannot read properties of undefined (reading 'name')"
         [] e.req.params.name = "get_upcoming_fixtures" ->
              "Cannot read properties of undefined (reading 'league')"
         [] e.req.params.name = "get_team_form" ->
              "Cannot read properties of undefined (reading 'team')"
         [] e.req.params.name = "get_odds" ->
              "Cannot read properties of undefined (reading 'fixture')"
  ELSE IF ~e.reply[1].ok
  THEN IF v = "sdk" THEN "API request failed: AxiosError: Network Error"
       ELSE "Network Error"
  ELSE IF "response" \notin DOMAIN e.reply[1].data
  THEN "Cannot read properties of undefined (reading 'slice')"
  ELSE IF e.req.params.name = "get_odds"
  THEN "Cannot read properties of undefined (reading 'teams')"
  ELSE "Cannot read properties of undefined (reading 'id')"

C5_ListFixedPoint ==
  /\ Cardinality(listed) <= 1
  /\ \A i \in 1..Len(last) :
       LET e == last[i]
       IN  (e.req.http = "POST" /\ e.req.method = "tools/list")
             => /\ Len(e.writes) = 1
                /\ listed = {ManifestOf(e.writes[1])}

\* C5's case: a manifest was listed, and then a tools/call failed upstream.
C5_Witness ==
  /\ listed # {}
  /\ last # <<>>
  /\ IsCall(last[1].req)
  /\ last[1].reply = <<Failed>>

(***************************************************************************)
(* C7.  When the upstream resolves with an empty response array, a         *)
(* summary tool answers with a success envelope whose collection is empty, *)
(* not with an error envelope or an error text.                            *)
(***************************************************************************)
C7_EmptyIsEmpty ==
  \A i \in 1..Len(last) :
    LET e == last[i]
        name == e.req.params.name
    IN  (/\ IsValidCall(e.req)
         /\ name \in SummaryTools
         /\ e.reply # <<>>
         /\ e.reply[1].ok
         /\ "response" \in DOMAIN e.reply[1].data
         /\ e.reply[1].data.response = <<>>)
          => /\ Len(e.writes) = 1
             /\ e.writes[1].status = 200
             /\ "error" \notin DOMAIN e.writes[1].body
             /\ HasContent(e.writes[1].body)
             /\ Len(ContentOf(e.writes[1].body)) = 1
             /\ CollectionKey(name) \in DOMAIN ContentOf(e.writes[1].body)[1].text
             /\ ContentOf(e.writes[1].body)[1].text[CollectionKey(name)] = <<>>

\* C7's case: get_odds answered an empty upstream array.
C7_Witness ==
  /\ last # <<>>
  /\ IsValidCall(last[1].req)
  /\ last[1].req.params.name = "get_odds"
  /\ last[1].reply = <<Resolved([results |-> 0, response |-> <<>>])>>

C9_ExactlyOneGet ==
  \A i \in 1..Len(last) :
    LET e == last[i]
    IN  Len(e.issued) = IF IsKnownCall(e.req) THEN 1 ELSE 0

(***************************************************************************)
(* C9, amended.  A tools/call for a known tool issues at most one upstream *)
(* GET: exactly one when params.arguments is present, none when it is      *)
(* absent (the handler throws before the call).  The GET is never issued   *)
(* again after a failure, and the failure is reported in the one response  *)
(* to the request that triggered it.  Every other request (tools/list,     *)
(* GET listing, health check, unknown method or tool) issues none.         *)
(***************************************************************************)
C9_OneShot ==
  /\ \A c \in DOMAIN pending :
       IsValidCall(pending[c].req) /\ Len(pending[c].issued) = 1
  /\ \A i \in 1..Len(last) :
       LET e == last[i]
       IN  /\ Len(e.issued) = IF IsValidCall(e.req) THEN 1 ELSE 0
           /\ (e.reply # <<>>) = IsValidCall(e.req)
           /\ e.reply = <<Failed>>
                => /\ Len(e.writes) = 1
                   /\ IF variant = "sdk"
                      THEN /\ HasContent(e.writes[1].body)
                           /\ "plain" \in DOMAIN ContentOf(e.writes[1].body)[1].text
                      ELSE /\ e.writes[1].status = 500
                           /\ "error" \in DOMAIN e.writes[1].body

\* C9's case: the upstream GET of a known tool failed.
C9_Witness ==
  /\ last # <<>>
  /\ IsValidCall(last[1].req)
  /\ last[1].reply = <<Failed>>
  /\ Len(last[1].issued) = 1

====
